---- MODULE Spec2Model ----
(***************************************************************************)
(* A model of polydatum's method-dispatch pipeline (polydatum/dal.py):     *)
(* the DataAccessLayer facade, its middleware chain, the default path      *)
(* resolver, the service registry and the lazy path builder                *)
(* (DalMethodRequester).                                                   *)
(*                                                                         *)
(* A call  dal.a.b.c(x)  is modelled step by step: StartPath and           *)
(* Extend build the path, Invoke creates the DalMethodRequest and enters   *)
(* the composed handler, MiddlewareCall enters one interceptor,            *)
(* TerminalHandler runs default_handle_dal_method, Return leaves one       *)
(* interceptor frame and Finish hands the outcome to the caller. A second   *)
(* caller of the same facade waits in other; Switch lets it run.           *)
(*                                                                         *)
(* The facade of polydatum/middleware.py, which a DataManager subclass can *)
(* name as its DataAccessLayer, is modelled next to the one of dal.py:     *)
(* built.cls tells which of the two the data manager holds.                *)
(***************************************************************************)
EXTENDS Integers, Sequences, FiniteSets, TLC

VARIABLES
    userList,   \* the caller's middleware list object (a Python list)
    handler,    \* DataAccessLayer._handler: the composed chain
    built,      \* the arguments of the construction that made the facade
    services,   \* DataAccessLayer._services: name -> service
    ctxDepth,   \* depth of the context stack (DataManager.ctx_stack)
    builders,   \* the caller's DalMethodRequester values, by slot
    pc,         \* position of the call in flight
    todo,       \* the handler the call is about to invoke
    frames,     \* interceptors entered and waiting for their next handler
    req,        \* the DalMethodRequest of the call in flight
    events,     \* what the interceptors and the handler observed
    invoked,    \* service methods invoked by the call, with their arguments
    ret,        \* the value or error travelling back up the chain
    outcome,    \* what the caller of the last operation received
    refused,    \* the <<name, service>> registrations refused so far
    asked,      \* the path and arguments the call in flight was made with
    other       \* a second caller's call, waiting for its turn to run

facadeVars == <<userList, handler, built, services>>
callVars == <<pc, todo, frames, req, events, invoked, ret>>
vars == <<userList, handler, built, services, ctxDepth, builders,
          pc, todo, frames, req, events, invoked, ret, outcome, refused,
          asked, other>>

-----------------------------------------------------------------------------
(* Bounds of the model *)

MaxMw == 2          \* longest middleware list a caller writes
MaxCtx == 2         \* deepest nesting of contexts
MaxPath == 2        \* longest path built in the pipeline specification
MaxMiss == 2        \* segments built past the first one the service tree lacks

-----------------------------------------------------------------------------
(* Values *)

\* Python's None, for a node of the service tree
NoNode == <<>>

ServiceNode(s) == <<"service", s>>

MethodNode(s, name) == <<"method", s, name>>

IsMethod(node) == Len(node) = 3

\* bool(node): None is falsy, service objects and bound methods are truthy
Truthy(node) == node # NoNode

\* callable(node): bound methods are, Service instances are not
Callable(node) == IsMethod(node)

\* The services of the tests: users -> profile -> sample -> example -> demo,
\* each with one method; AltSvc is a second service with users' method name.
Child(s) ==
    CASE s = "UsersSvc" -> <<"profile", "ProfileSvc">>
      [] s = "ProfileSvc" -> <<"sample", "SampleSvc">>
      [] s = "SampleSvc" -> <<"example", "ExampleSvc">>
      [] s = "ExampleSvc" -> <<"demo", "DemoSvc">>
      [] OTHER -> <<>>

MethodOf(s) ==
    CASE s = "UsersSvc" -> "user_test_method"
      [] s = "ProfileSvc" -> "profile_test_method"
      [] s = "SampleSvc" -> "sample_test_method"
      [] s = "ExampleSvc" -> "example_test_method"
      [] s = "DemoSvc" -> "demo_test_method"
      [] OTHER -> "user_test_method"

\* what a service method returns
ResultOf(node) ==
    CASE node = MethodNode("UsersSvc", "user_test_method") -> "user-service"
      [] node = MethodNode("ProfileSvc", "profile_test_method") -> "profile-nested-service"
      [] node = MethodNode("SampleSvc", "sample_test_method") -> "sample-nested-service"
      [] node = MethodNode("ExampleSvc", "example_test_method") -> "example-nested-service"
      [] node = MethodNode("DemoSvc", "demo_test_method") -> "demo-nested-service"
      [] node = MethodNode("AltSvc", "user_test_method") -> "alt-service"
      [] OTHER -> "test-method-result"

\* the method the tests' DefaultMiddleware writes into request.dal_method
TestMethod == MethodNode("test", "test_method")

\* an interceptor: who it is (role I = supplied by the user, D = default,
\* n = its place in the list it came from), how its __call__ behaves, and
\* whether it is an instance of MethodMiddleware
Mw(role, n, kind, mm) == [role |-> role, n |-> n, kind |-> kind, mm |-> mm]

\* DalMethodResolverMiddleware(), the default of default_middleware
DefaultResolver == Mw("D", 1, "Resolver", TRUE)

NoError == [type |-> "none", at |-> 0, hasPath |-> FALSE, path |-> <<>>]

Error(type, at) == [type |-> type, at |-> at, hasPath |-> FALSE, path |-> <<>>]

NoReturn == [val |-> "none", err |-> NoError]

Returned(v) == [val |-> v, err |-> NoError]

Raised(e) == [val |-> "none", err |-> e]

NoRequest == [ctx |-> 0, path |-> <<>>, args |-> <<>>, kwargs |-> <<>>, dal_method |-> NoNode]

Outcome(op, r) == [op |-> op, val |-> r.val, err |-> r.err]

\* self._handler(self._path, *args, **kwargs) as the caller wrote it
Ask(path, args, kwargs) == [path |-> path, args |-> args, kwargs |-> kwargs]

NoAsk == Ask(<<>>, <<>>, <<>>)

\* a caller that has made no call yet
IdleCaller ==
    [pc |-> "idle", todo |-> <<>>, frames |-> <<>>, req |-> NoRequest,
     events |-> <<>>, invoked |-> <<>>, ret |-> NoReturn,
     outcome |-> Outcome("none", NoReturn), asked |-> NoAsk]

-----------------------------------------------------------------------------
(* DataAccessLayer.__init__: composing the chain *)

\* default_handle_dal_method as a handler value
TerminalH == <<"default_handle_dal_method">>

\* functools.partial(m, handler=h)
Partial(m, h) == <<"partial", m, h>>

\* reversed(middleware)
Reversed(s) == [i \in 1..Len(s) |-> s[Len(s) + 1 - i]]

\* callable(m): what functools.partial requires of its first argument
IsCallable(m) == m.kind # "NotCallable"

\* the defaults put in front of the caller's interceptors
ExtendedDefaultsFirst(middleware, default_middleware) ==
    default_middleware \o middleware

\* if default_middleware: middleware.extend(default_middleware)
Extended(middleware, default_middleware) ==
    IF default_middleware # <<>> THEN middleware \o default_middleware ELSE middleware

RECURSIVE Wrap(_, _)
\* for m in ms: h = update_wrapper(partial(m, handler=h), h)
Wrap(ms, h) ==
    IF ms = <<>> THEN h ELSE Wrap(Tail(ms), Partial(Head(ms), h))

\* the loop run over middleware as written, not reversed
ComposeHandlerForward(middleware) == Wrap(middleware, TerminalH)

\* self._handler after the loop over reversed(middleware)
ComposeHandler(middleware) == Wrap(Reversed(middleware), TerminalH)

-----------------------------------------------------------------------------
(* The service registry and the resolver *)

EmptyServices == [n \in {} |-> "UsersSvc"]

\* self._services[key] = service
Store(svcs, key, service) ==
    [n \in DOMAIN svcs \cup {key} |-> IF n = key THEN service ELSE svcs[n]]

\* the registry itself as the node the walk starts from
RootNode == <<"dict">>

IsDict(node) == Len(node) = 1

\* bool() of the walk's current node: an empty dict is falsy too
WalkTruthy(svcs, node) ==
    IF IsDict(node) THEN DOMAIN svcs # {} ELSE Truthy(node)

\* service_or_method.get(name)
DictGet(svcs, name) ==
    IF name \in DOMAIN svcs THEN ServiceNode(svcs[name]) ELSE NoNode

\* whether the object has an attribute of that name
HasAttr(node, name) ==
    /\ Len(node) = 2
    /\ \/ MethodOf(node[2]) = name
       \/ Child(node[2]) # <<>> /\ Child(node[2])[1] = name

\* getattr(service_or_method, name), for an attribute the object has
AttrValue(node, name) ==
    IF MethodOf(node[2]) = name
    THEN MethodNode(node[2], name)
    ELSE ServiceNode(Child(node[2])[2])

\* getattr(service_or_method, name): raises AttributeError when the object
\* has no such attribute (the two-argument form has no default)
GetAttr(node, name) ==
    IF HasAttr(node, name)
    THEN [raised |-> FALSE, node |-> AttrValue(node, name)]
    ELSE [raised |-> TRUE, node |-> NoNode]

\* a walk that looks every segment up in the registry
WalkStepFlat(svcs, cur, name) == [raised |-> FALSE, node |-> DictGet(svcs, name)]

\* one turn of walk_path's loop for segment name, from node cur: what it
\* yields as service_or_method, or that the lookup raised
WalkStep(svcs, cur, name) ==
    IF WalkTruthy(svcs, cur)
    THEN IF IsDict(cur)
         THEN [raised |-> FALSE, node |-> DictGet(svcs, name)]
         ELSE GetAttr(cur, name)
    ELSE [raised |-> FALSE, node |-> NoNode]

\* location at the yield for segment i: the segments up to and including i
Location(path, i) == SubSeq(path, 1, i)

RECURSIVE ResolveFrom(_, _, _, _, _)
\* resolve()'s loop over walk_path, about to consume segment i with the
\* walk at node cur; last is the latest service_or_method yielded
ResolveFrom(svcs, path, i, cur, last) ==
    IF i > Len(path)
    THEN [status |-> "ok", node |-> last, path |-> <<>>]
    ELSE LET y == WalkStep(svcs, cur, path[i]) IN
         IF y.raised
         THEN [status |-> "AttributeError", node |-> NoNode, path |-> <<>>]
         ELSE IF ~Truthy(y.node)
              THEN [status |-> "DalMethodError", node |-> NoNode,
                    path |-> Location(path, i)]
              ELSE ResolveFrom(svcs, path, i + 1, y.node, y.node)

\* a resolver that walks the registry as it was when the facade was made
ResolveAtConstruction(svcs, path) ==
    ResolveFrom(EmptyServices, path, 1, RootNode, NoNode)

\* DalMethodResolverMiddleware.resolve(request)
Resolve(svcs, path) == ResolveFrom(svcs, path, 1, RootNode, NoNode)

\* DalMethodError(request, path=p) and DalMethodError(request)
DalMethodError(at, hasPath, p) ==
    [type |-> "DalMethodError", at |-> at, hasPath |-> hasPath, path |-> p]

\* a resolver that leaves a target written before it as it is
ResolverBodyKeeping(svcs, request, at) ==
    LET r == Resolve(svcs, request.path) IN
    IF request.ctx # 0 /\ r.status = "ok" /\ Truthy(r.node) /\ Callable(r.node)
    THEN [go |-> TRUE,
          req |-> IF Truthy(request.dal_method)
                  THEN request
                  ELSE [request EXCEPT !.dal_method = r.node],
          ret |-> NoReturn]
    ELSE [go |-> FALSE, req |-> request,
          ret |-> Raised(DalMethodError(at, FALSE, <<>>))]

\* DalMethodResolverMiddleware.__call__ up to its call of handler: whether
\* it goes on to the next handler, the request as it leaves it, and what it
\* raises otherwise
ResolverBody(svcs, request, at) ==
    IF request.ctx = 0
    THEN \* request.ctx is None: None has no attribute dal
         [go |-> FALSE, req |-> request, ret |-> Raised(Error("AttributeError", at))]
    ELSE LET r == Resolve(svcs, request.path) IN
         IF r.status = "ok"
         THEN IF Truthy(r.node) /\ Callable(r.node)
              THEN [go |-> TRUE, req |-> [request EXCEPT !.dal_method = r.node],
                    ret |-> NoReturn]
              ELSE [go |-> FALSE, req |-> request,
                    ret |-> Raised(DalMethodError(at, FALSE, <<>>))]
         ELSE IF r.status = "DalMethodError"
              THEN [go |-> FALSE, req |-> request,
                    ret |-> Raised(DalMethodError(at, TRUE, r.path))]
              ELSE [go |-> FALSE, req |-> request,
                    ret |-> Raised(Error("AttributeError", at))]

\* the tests' AuthMiddleware.user_is_authenticated(request.path)
UserIsAuthenticated(path) == path[Len(path)] = "authenticated_method"

\* the entry is a class, not an instance of one
IsFactory(m) == m.kind \in {"ResolverClass", "PassClass"}

\* the instance a facade would hold had it instantiated the class
InstanceOf(m) ==
    IF m.kind = "ResolverClass"
    THEN [m EXCEPT !.kind = "Resolver", !.mm = TRUE]
    ELSE IF m.kind = "PassClass"
         THEN [m EXCEPT !.kind = "Pass", !.mm = TRUE]
         ELSE m

\* an interceptor that writes the request's arguments before it goes on:
\* request.args = request.args + ('added',) and
\* request.kwargs = dict(request.kwargs, by='interceptor')
AddedArg(request) ==
    [request EXCEPT !.args = Append(request.args, "added"),
                    !.kwargs = Append(request.kwargs, <<"by", "interceptor">>)]

\* what an interceptor that does not call its next handler returns
ShortCircuitValue == "short-circuit"

\* a chain whose links go on to the next handler whatever the interceptor
\* does
InterceptorBodyCallsNext(svcs, m, request, at) ==
    [go |-> TRUE, req |-> request, ret |-> NoReturn]

\* what calling the chain link partial(m, handler=h)(request=r) does up to
\* the call of handler(request), or to its return or raise when it makes no
\* such call: for an instance its __call__ runs; for a class the call is
\* m(handler=h, request=r), an instantiation with arguments the class does
\* not take
InterceptorBody(svcs, m, request, at) ==
    CASE m.kind = "Resolver" -> ResolverBody(svcs, request, at)
      [] IsFactory(m) ->
            [go |-> FALSE, req |-> request, ret |-> Raised(Error("TypeError", at))]
      [] m.kind = "Auth" ->
            IF UserIsAuthenticated(request.path)
            THEN [go |-> TRUE, req |-> request, ret |-> NoReturn]
            ELSE [go |-> FALSE, req |-> request,
                  ret |-> Raised(Error("SpecificException", at))]
      [] m.kind = "SetTarget" ->
            [go |-> TRUE, req |-> [request EXCEPT !.dal_method = TestMethod],
             ret |-> NoReturn]
      [] m.kind = "AddArg" ->
            [go |-> TRUE, req |-> AddedArg(request), ret |-> NoReturn]
      [] m.kind = "ShortCircuit" ->
            [go |-> FALSE, req |-> request, ret |-> Returned(ShortCircuitValue)]
      [] OTHER -> [go |-> TRUE, req |-> request, ret |-> NoReturn]

\* a chain that replaces the error passing through it
InterceptorExitWrapping(m, r) ==
    IF r.err # NoError THEN Raised(Error("PipelineError", 0)) ELSE r

\* a chain in which every interceptor swallows the error passing through it
InterceptorExitSwallowing(m, r) ==
    IF r.err # NoError THEN Returned("fallback") ELSE r

\* what an interceptor hands to its own caller when its next handler came
\* back with r: the Catch interceptor swallows an error, the others pass
\* the value or the error on
InterceptorExit(m, r) ==
    IF m.kind = "Catch" /\ r.err # NoError THEN Returned("fallback") ELSE r

\* a terminal handler without its assertion
HandleDalMethodUnchecked(request, at) ==
    [called |-> TRUE, ret |-> Returned(ResultOf(request.dal_method))]

\* default_handle_dal_method(request)
HandleDalMethod(request, at) ==
    IF Truthy(request.dal_method)
    THEN [called |-> TRUE, ret |-> Returned(ResultOf(request.dal_method))]
    ELSE [called |-> FALSE, ret |-> Raised(Error("AssertionError", at))]

-----------------------------------------------------------------------------
(* The state after DataManager(): its facade is DataAccessLayer(self), the *)
(* registry is empty, no context is open and no call is in flight.         *)

Slots == {1, 2, 3}

\* DalMethodRequester(handler, path)
Requester(h, path) == [handler |-> h, path |-> path]

NoBuilder == Requester("none", <<>>)

\* the facade's bound method _call, the handler of the builders it hands out
FacadeCall == "_call"

Handler == Mw("H", 0, "Handler", TRUE)

\* one observation: an interceptor entered (enter), a class of interceptors
\* called (instantiate), the terminal handler entered (call), an error
\* raised by who (raise), or control leaving an
\* interceptor (exit) with the error err, NoError when it returns
Event(ev, who, at, err) == [ev |-> ev, who |-> who, at |-> at, err |-> err]

Init ==
    /\ userList = <<>>
    /\ handler = ComposeHandler(Extended(<<>>, <<DefaultResolver>>))
    /\ built = [user |-> <<>>, defaults |-> <<DefaultResolver>>, cls |-> "dal"]
    /\ services = EmptyServices
    /\ ctxDepth = 0
    /\ builders = [s \in Slots |-> NoBuilder]
    /\ pc = "idle"
    /\ todo = <<>>
    /\ frames = <<>>
    /\ req = NoRequest
    /\ events = <<>>
    /\ invoked = <<>>
    /\ ret = NoReturn
    /\ outcome = Outcome("none", NoReturn)
    /\ refused = {}
    /\ asked = NoAsk
    /\ other = IdleCaller

\* no call is in flight: the caller is between two statements
Quiet == pc \in {"idle", "done"}

\* the request and the trace of the previous call are gone
ClearRequest ==
    /\ pc' = "idle"
    /\ todo' = <<>>
    /\ frames' = <<>>
    /\ req' = NoRequest
    /\ events' = <<>>
    /\ ret' = NoReturn
    /\ asked' = NoAsk
    /\ other' = other

ClearCall ==
    /\ ClearRequest
    /\ invoked' = <<>>

-----------------------------------------------------------------------------
(* Operations of the caller, the data manager and the facade *)

\* the caller writes a list of interceptors
MakeList(l) ==
    /\ Quiet
    /\ userList = <<>>
    /\ l # <<>>
    /\ userList' = l
    /\ outcome' = Outcome("list", Returned("list"))
    /\ ClearCall
    /\ UNCHANGED <<handler, built, services, ctxDepth, builders, refused>>

\* DataAccessLayer(data_manager, middleware=userList, default_middleware=dmw)
Construct(dmw) ==
    /\ Quiet
    /\ Len(userList) <= MaxMw
    /\ LET middleware == Extended(userList, dmw)
           callable == \A i \in 1..Len(middleware) : IsCallable(middleware[i])
       IN /\ userList' = IF userList # <<>> THEN middleware ELSE userList
          /\ IF callable
             THEN /\ handler' = ComposeHandler(middleware)
                  /\ built' = [user |-> userList, defaults |-> dmw, cls |-> "dal"]
                  /\ services' = EmptyServices
                  /\ builders' = [s \in Slots |-> NoBuilder]
                  /\ outcome' = Outcome("construct", Returned("facade"))
             ELSE /\ UNCHANGED <<handler, built, services, builders>>
                  /\ outcome' = Outcome("construct", Raised(Error("TypeError", 0)))
    /\ ClearCall
    /\ UNCHANGED <<ctxDepth, refused>>

\* with dm.context(): ... entered
BeginContext ==
    /\ Quiet
    /\ ctxDepth < MaxCtx
    /\ ctxDepth' = ctxDepth + 1
    /\ ClearCall
    /\ UNCHANGED <<facadeVars, builders, outcome, refused>>

\* ... and left
EndContext ==
    /\ Quiet
    /\ ctxDepth > 0
    /\ ctxDepth' = ctxDepth - 1
    /\ ClearCall
    /\ UNCHANGED <<facadeVars, builders, outcome, refused>>

\* DataManager.get_active_context(): the top of the stack, or None (0)
GetActiveContext == ctxDepth

\* service.setup(data_manager) raises: a service whose setup fails
SetupRaises(service) == service = "BrokenSvc"

\* the call service.setup(self._data_manager), as the service sees it
SetupCall(service) ==
    [target |-> MethodNode(service, "setup"), args |-> <<"data_manager">>,
     kwargs |-> <<>>]

\* storing first and setting up afterwards
InitServiceStoreFirst(svcs, key, service) ==
    [services |-> Store(svcs, key, service), raised |-> SetupRaises(service),
     setups |-> <<SetupCall(service)>>]

\* _init_service(key, service): setup, then store; when setup raises the
\* store is not reached
InitService(svcs, key, service) ==
    IF SetupRaises(service)
    THEN [services |-> svcs, raised |-> TRUE, setups |-> <<SetupCall(service)>>]
    ELSE [services |-> Store(svcs, key, service), raised |-> FALSE,
          setups |-> <<SetupCall(service)>>]

\* nothing left to register
LoopDone(svcs) ==
    [services |-> svcs, raised |-> FALSE, error |-> "none", item |-> <<>>,
     setups |-> <<>>]

\* the loop left by a raise of error at item, after the setups made so far
LoopRaised(svcs, error, item, setups) ==
    [services |-> svcs, raised |-> TRUE, error |-> error, item |-> item,
     setups |-> setups]

RECURSIVE RegisterLoopOverwriting(_, _)
\* the loop without its check for a registered name
RegisterLoopOverwriting(svcs, items) ==
    IF items = <<>>
    THEN LoopDone(svcs)
    ELSE LET s == InitService(svcs, Head(items)[1], Head(items)[2]) IN
         IF s.raised
         THEN LoopRaised(s.services, "SetupError", Head(items), s.setups)
         ELSE LET r == RegisterLoopOverwriting(s.services, Tail(items))
              IN [r EXCEPT !.setups = s.setups \o r.setups]

RECURSIVE RegisterLoop(_, _)
\* the loop of register_services over services.items()
RegisterLoop(svcs, items) ==
    IF items = <<>>
    THEN LoopDone(svcs)
    ELSE IF Head(items)[1] \in DOMAIN svcs
         THEN LoopRaised(svcs, "AlreadyExistsException", Head(items), <<>>)
         ELSE LET s == InitService(svcs, Head(items)[1], Head(items)[2]) IN
              IF s.raised
              THEN LoopRaised(s.services, "SetupError", Head(items), s.setups)
              ELSE LET r == RegisterLoop(s.services, Tail(items))
                   IN [r EXCEPT !.setups = s.setups \o r.setups]

\* register_services(**mapping); mapping is the keyword arguments in order
RegisterServices(mapping) ==
    /\ Quiet
    /\ built.cls = "dal"
    /\ LET r == RegisterLoop(services, mapping) IN
       /\ services' = r.services
       /\ invoked' = r.setups
       /\ outcome' = IF r.raised
                     THEN Outcome("register_services", Raised(Error(r.error, 0)))
                     ELSE Outcome("register_services", Returned("ok"))
       /\ refused' = IF r.error = "AlreadyExistsException"
                     THEN refused \cup {r.item}
                     ELSE refused
    /\ ClearRequest
    /\ UNCHANGED <<userList, handler, built, ctxDepth, builders>>

\* a replace_service that refuses a registered name
ReplaceServiceGuarded(key, service) ==
    /\ Quiet
    /\ built.cls = "dal"
    /\ LET s == InitService(services, key, service)
           refuse == key \in DOMAIN services
       IN /\ services' = IF refuse THEN services ELSE s.services
          /\ invoked' = IF refuse THEN <<>> ELSE s.setups
          /\ outcome' = IF refuse
                        THEN Outcome("replace_service",
                                     Raised(Error("AlreadyExistsException", 0)))
                        ELSE IF s.raised
                             THEN Outcome("replace_service", Raised(Error("SetupError", 0)))
                             ELSE Outcome("replace_service", Returned("ok"))
    /\ ClearRequest
    /\ UNCHANGED <<userList, handler, built, ctxDepth, builders, refused>>

\* replace_service(key, service)
ReplaceService(key, service) ==
    /\ Quiet
    /\ built.cls = "dal"
    /\ LET s == InitService(services, key, service) IN
       /\ services' = s.services
       /\ invoked' = s.setups
       /\ outcome' = IF s.raised
                     THEN Outcome("replace_service", Raised(Error("SetupError", 0)))
                     ELSE Outcome("replace_service", Returned("ok"))
    /\ ClearRequest
    /\ UNCHANGED <<userList, handler, built, ctxDepth, builders, refused>>

\* PathSegment(name=name): the model keeps the name, meta is empty
PathSegment(name) == name

\* DalMethodRequester(h, path) made directly, as the tests do, and kept in
\* a slot
MakeRequester(slot, h, path) ==
    /\ Quiet
    /\ builders' = [builders EXCEPT ![slot] = Requester(h, path)]
    /\ outcome' = Outcome("requester", Returned("builder"))
    /\ ClearCall
    /\ UNCHANGED <<facadeVars, ctxDepth, refused>>

\* a facade that resolves the first segment as soon as it is named
StartPathEager(slot, name) ==
    /\ Quiet
    /\ built.cls = "dal"
    /\ GetActiveContext # 0
    /\ builders' = [builders EXCEPT
                      ![slot] = Requester(FacadeCall, <<PathSegment(name)>>)]
    /\ outcome' = Outcome("getattr", Returned("builder"))
    /\ pc' = "idle"
    /\ todo' = <<>>
    /\ frames' = <<>>
    /\ req' = [ctx |-> GetActiveContext, path |-> <<PathSegment(name)>>,
               args |-> <<>>, kwargs |-> <<>>, dal_method |-> DictGet(services, name)]
    /\ events' = <<>>
    /\ invoked' = <<>>
    /\ ret' = NoReturn
    /\ UNCHANGED <<facadeVars, ctxDepth, refused, asked, other>>

\* DataAccessLayer.__getattr__(name), the result kept in a slot
StartPath(slot, name) ==
    /\ Quiet
    /\ built.cls = "dal"
    /\ IF GetActiveContext = 0
       THEN /\ outcome' = Outcome("getattr", Raised(Error("AssertionError", 0)))
            /\ UNCHANGED builders
       ELSE /\ builders' = [builders EXCEPT
                               ![slot] = Requester(FacadeCall, <<PathSegment(name)>>)]
            /\ outcome' = Outcome("getattr", Returned("builder"))
    /\ ClearCall
    /\ UNCHANGED <<facadeVars, ctxDepth, refused>>

\* a builder that puts the new segment in front of its path
RequesterGetattrPrepending(b, name) ==
    Requester(b.handler, <<PathSegment(name)>> \o b.path)

\* a builder bound to the facade whatever its parent was bound to
RequesterGetattrRebinding(b, name) ==
    Requester(FacadeCall, b.path \o <<PathSegment(name)>>)

\* DalMethodRequester.__getattr__(name): a new builder with the same handler
\* and the path one segment longer
RequesterGetattr(b, name) ==
    Requester(b.handler, b.path \o <<PathSegment(name)>>)

\* an extension that lengthens the builder it is applied to as well
ExtendInPlace(src, dst, name) ==
    /\ Quiet
    /\ builders[src] # NoBuilder
    /\ builders' = [s \in Slots |->
                      IF s \in {src, dst}
                      THEN RequesterGetattr(builders[src], name)
                      ELSE builders[s]]
    /\ outcome' = Outcome("getattr", Returned("builder"))
    /\ ClearCall
    /\ UNCHANGED <<facadeVars, ctxDepth, refused>>

\* DalMethodRequester.__getattr__(name) on the builder in slot src, the new
\* builder kept in slot dst
Extend(src, dst, name) ==
    /\ Quiet
    /\ builders[src] # NoBuilder
    /\ builders' = [builders EXCEPT ![dst] = RequesterGetattr(builders[src], name)]
    /\ outcome' = Outcome("getattr", Returned("builder"))
    /\ ClearCall
    /\ UNCHANGED <<facadeVars, ctxDepth, refused>>

\* DalMethodRequest(ctx, path, args, kwargs)
DalMethodRequest(ctx, path, args, kwargs) ==
    [ctx |-> ctx, path |-> path, args |-> args, kwargs |-> kwargs,
     dal_method |-> NoNode]

\* the handler of the tests' builders: handler(path_chain, *args, **kwargs),
\* which returns what it was called with
TestHandler == "handler"

\* a facade that hands the request of a call in flight to the next call
FacadeCallStartsShared(path, args, kwargs) ==
    /\ req' = IF other.req # NoRequest
              THEN [other.req EXCEPT !.path = path]
              ELSE DalMethodRequest(GetActiveContext, path, args, kwargs)
    /\ todo' = handler
    /\ pc' = "enter"
    /\ outcome' = Outcome("call", NoReturn)

\* DataAccessLayer._call(path, *args, **kwargs): the request is made and the
\* composed handler is about to be called with it
FacadeCallStarts(path, args, kwargs) ==
    /\ req' = DalMethodRequest(GetActiveContext, path, args, kwargs)
    /\ todo' = handler
    /\ pc' = "enter"
    /\ outcome' = Outcome("call", NoReturn)

\* DalMethodRequest(ctx, path, *args, **kwargs), as the middleware module's
\* _call writes it: the caller's positional arguments land on the
\* parameters args and kwargs, and anything but exactly two of them (and no
\* keyword) is a TypeError
SplatRequest(ctx, path, args, kwargs) ==
    IF Len(args) = 2 /\ kwargs = <<>>
    THEN [raised |-> FALSE, req |-> DalMethodRequest(ctx, path, args[1], args[2])]
    ELSE [raised |-> TRUE, req |-> NoRequest]

\* the middleware module's DataAccessLayer._call(path, *args, **kwargs)
MiddlewareFacadeCallStarts(path, args, kwargs) ==
    LET r == SplatRequest(GetActiveContext, path, args, kwargs) IN
    /\ req' = r.req
    /\ todo' = IF r.raised THEN <<>> ELSE handler
    /\ pc' = IF r.raised THEN "done" ELSE "enter"
    /\ outcome' = IF r.raised
                  THEN Outcome("call", Raised(Error("TypeError", 0)))
                  ELSE Outcome("call", NoReturn)

\* handler(path_chain, *args, **kwargs) of the tests has returned
TestHandlerReturns(path, args, kwargs) ==
    /\ req' = NoRequest
    /\ todo' = <<>>
    /\ pc' = "done"
    /\ outcome' = [op |-> "handler", val |-> <<path, args, kwargs>>, err |-> NoError]

\* DalMethodRequester.__call__(*args, **kwargs) on the builder in slot:
\* self._handler(self._path, *args, **kwargs)
Invoke(slot, args, kwargs) ==
    /\ Quiet
    /\ builders[slot] # NoBuilder
    /\ IF builders[slot].handler = FacadeCall
       THEN IF built.cls = "dal"
            THEN FacadeCallStarts(builders[slot].path, args, kwargs)
            ELSE MiddlewareFacadeCallStarts(builders[slot].path, args, kwargs)
       ELSE TestHandlerReturns(builders[slot].path, args, kwargs)
    /\ frames' = <<>>
    /\ events' = <<>>
    /\ invoked' = <<>>
    /\ ret' = NoReturn
    /\ asked' = Ask(builders[slot].path, args, kwargs)
    /\ UNCHANGED <<facadeVars, ctxDepth, builders, refused, other>>

\* the next handler is partial(m, handler=h): m.__call__(request, h) runs
\* up to its call of h, or to its raise
MiddlewareCall ==
    /\ pc = "enter"
    /\ Len(todo) = 3
    /\ LET m == todo[2]
           at == Len(frames) + 1
           b == InterceptorBody(services, m, req, at)
           entry == IF IsFactory(m) THEN "instantiate" ELSE "enter"
       IN /\ events' = IF b.go \/ b.ret.err = NoError
                       THEN Append(events, Event(entry, m, at, NoError))
                       ELSE events \o << Event(entry, m, at, NoError),
                                         Event("raise", m, at, b.ret.err) >>
          /\ frames' = Append(frames, m)
          /\ req' = b.req
          /\ ret' = b.ret
          /\ pc' = IF b.go THEN "enter" ELSE "leave"
          /\ todo' = IF b.go THEN todo[3] ELSE <<>>
    /\ UNCHANGED <<facadeVars, ctxDepth, builders, invoked, outcome, refused,
                   asked, other>>

\* the next handler is default_handle_dal_method
TerminalHandler ==
    /\ pc = "enter"
    /\ todo = TerminalH
    /\ LET h == HandleDalMethod(req, Len(frames) + 1) IN
       /\ events' = IF h.called
                    THEN Append(events, Event("call", Handler, Len(frames) + 1, NoError))
                    ELSE events \o << Event("call", Handler, Len(frames) + 1, NoError),
                                      Event("raise", Handler, Len(frames) + 1, h.ret.err) >>
       /\ invoked' = IF h.called
                     THEN Append(invoked, [target |-> req.dal_method,
                                           args |-> req.args, kwargs |-> req.kwargs])
                     ELSE invoked
       /\ ret' = h.ret
    /\ pc' = "leave"
    /\ todo' = <<>>
    /\ UNCHANGED <<facadeVars, ctxDepth, builders, frames, req, outcome, refused,
                   asked, other>>

\* control leaves the innermost interceptor entered, by return or by raise
Return ==
    /\ pc = "leave"
    /\ frames # <<>>
    /\ LET m == frames[Len(frames)] IN
       /\ events' = Append(events, Event("exit", m, Len(frames),
                                          InterceptorExit(m, ret).err))
       /\ ret' = InterceptorExit(m, ret)
    /\ frames' = SubSeq(frames, 1, Len(frames) - 1)
    /\ UNCHANGED <<facadeVars, ctxDepth, builders, pc, todo, req, invoked, outcome,
                   refused, asked, other>>

\* the outermost handler has returned or raised: the caller has the outcome
Finish ==
    /\ pc = "leave"
    /\ frames = <<>>
    /\ pc' = "done"
    /\ outcome' = Outcome("call", ret)
    /\ UNCHANGED <<facadeVars, ctxDepth, builders, todo, frames, req, events,
                   invoked, ret, refused, asked, other>>

\* the caller that runs, as it waits while the other one runs
Waiting ==
    [pc |-> pc, todo |-> todo, frames |-> frames, req |-> req,
     events |-> events, invoked |-> invoked, ret |-> ret,
     outcome |-> outcome, asked |-> asked]

\* the running caller stops where it is and the waiting one goes on from
\* where it stopped; the facade, the registry and the builders are the same
\* objects for both
Switch ==
    /\ other' = Waiting
    /\ pc' = other.pc
    /\ todo' = other.todo
    /\ frames' = other.frames
    /\ req' = other.req
    /\ events' = other.events
    /\ invoked' = other.invoked
    /\ ret' = other.ret
    /\ outcome' = other.outcome
    /\ asked' = other.asked
    /\ UNCHANGED <<facadeVars, ctxDepth, builders, refused>>

-----------------------------------------------------------------------------
(* The string-keyed lookup, and the facade of the middleware module *)

\* a string as the sequence of its pieces: names, and the dots between them
Dotted(names) ==
    [i \in 1..(2 * Len(names) - 1) |-> IF i % 2 = 1 THEN names[(i + 1) \div 2] ELSE "."]

RECURSIVE SplitFrom(_, _, _)
\* path.split('.') from piece i on, cur being the segment read so far
SplitFrom(str, i, cur) ==
    IF i > Len(str)
    THEN <<cur>>
    ELSE IF str[i] = "."
         THEN <<cur>> \o SplitFrom(str, i + 1, "")
         ELSE SplitFrom(str, i + 1, str[i])

\* path.split('.')
Split(str) == SplitFrom(str, 1, "")

\* the lookup left by an error: no node is returned
LookupRaised(type) == [val |-> NoNode, err |-> Error(type, 0)]

RECURSIVE GetItemLoop(_, _)
\* while 1: p = paths.pop(0); loc = getattr(loc, p)
GetItemLoop(loc, paths) ==
    IF paths = <<>>
    THEN Returned(loc)
    ELSE LET g == GetAttr(loc, Head(paths)) IN
         IF g.raised
         THEN LookupRaised("AttributeError")
         ELSE GetItemLoop(g.node, Tail(paths))

\* DataAccessLayer.__getitem__(path) from loc = self._services[p] on
GetItemFrom(svcs, p, paths) ==
    IF p \in DOMAIN svcs
    THEN GetItemLoop(ServiceNode(svcs[p]), paths)
    ELSE LookupRaised("KeyError")

\* a lookup that stops at the service the first segment names
GetItemResultUnwalked(svcs, str) == GetItemFrom(svcs, Head(Split(str)), <<>>)

\* DataAccessLayer.__getitem__(path): what it returns or raises
GetItemResult(svcs, str) ==
    LET paths == Split(str) IN
    IF Head(paths) = "dal"
    THEN IF Len(paths) = 1
         THEN LookupRaised("IndexError")
         ELSE GetItemFrom(svcs, paths[2], SubSeq(paths, 3, Len(paths)))
    ELSE GetItemFrom(svcs, Head(paths), Tail(paths))

\* dal[path]
GetItem(str) ==
    /\ Quiet
    /\ built.cls = "dal"
    /\ outcome' = Outcome("getitem", GetItemResult(services, str))
    /\ ClearCall
    /\ UNCHANGED <<facadeVars, ctxDepth, builders, refused>>

\* default_middleware of the middleware module's facade: the class
\* DalMethodResolverMiddleware, not an instance of it
ResolverClass == Mw("D", 1, "ResolverClass", FALSE)

\* the default of default_middleware, by the module of the facade class
DefaultMiddlewareOf(cls) ==
    IF cls = "dal" THEN <<DefaultResolver>> ELSE <<ResolverClass>>

\* DataManager() of a manager class whose DataAccessLayer is the class of
\* module cls: self._dal = self.DataAccessLayer(self)
NewDataManager(cls) ==
    /\ Quiet
    /\ handler' = ComposeHandler(Extended(<<>>, DefaultMiddlewareOf(cls)))
    /\ built' = [user |-> <<>>, defaults |-> DefaultMiddlewareOf(cls), cls |-> cls]
    /\ services' = EmptyServices
    /\ builders' = [s \in Slots |-> NoBuilder]
    /\ outcome' = Outcome("manager", Returned("manager"))
    /\ ClearCall
    /\ UNCHANGED <<userList, ctxDepth, refused>>

\* the middleware module's DataAccessLayer.__getattr__(name) up to its
\* return: pdb.set_trace() stops in the debugger, which either lets the
\* program continue or ends it with BdbQuit; then the context is asserted
MiddlewareGetattr(dbg) ==
    IF dbg = "quit"
    THEN Raised(Error("BdbQuit", 0))
    ELSE IF GetActiveContext = 0
         THEN Raised(Error("AssertionError", 0))
         ELSE Returned("builder")

\* dal.<name> on the middleware module's facade, the result kept in a slot
MiddlewareStartPath(slot, name, dbg) ==
    /\ Quiet
    /\ built.cls = "middleware"
    /\ LET g == MiddlewareGetattr(dbg) IN
       /\ outcome' = Outcome("getattr", g)
       /\ builders' = IF g.err = NoError
                      THEN [builders EXCEPT
                              ![slot] = Requester(FacadeCall, <<PathSegment(name)>>)]
                      ELSE builders
    /\ ClearCall
    /\ UNCHANGED <<facadeVars, ctxDepth, refused>>

\* DataManager.register_services(**mapping) when the facade is the
\* middleware module's: the facade has no register_services, so the name
\* goes to __getattr__, and the builder it returns is called with the
\* services as keywords, which DalMethodRequest does not take
MiddlewareRegisterServices(mapping, dbg) ==
    /\ Quiet
    /\ built.cls = "middleware"
    /\ LET g == MiddlewareGetattr(dbg) IN
       outcome' = IF g.err = NoError
                  THEN Outcome("register_services", Raised(Error("TypeError", 0)))
                  ELSE Outcome("register_services", g)
    /\ ClearCall
    /\ UNCHANGED <<facadeVars, ctxDepth, builders, refused>>

-----------------------------------------------------------------------------
(* The pipeline specification: a caller writes a list of interceptors,     *)
(* builds facades from it and makes calls through them.                    *)

\* the lists of length 1..MaxMw of interceptors of the given behaviours; the
\* i-th entry is interceptor I_i
MwLists(behaviours) ==
    UNION { { [i \in 1..n |-> Mw("I", i, f[i][1], f[i][2])] :
              f \in [1..n -> behaviours] } : n \in 1..MaxMw }

\* the tests' interceptors: Outer/SecondMiddleware (Pass), AuthMiddleware
\* (Auth), one that catches what its next handler raises (Catch),
\* FooMiddleware() with no __call__ (NotCallable), and a plain callable
\* that is no MethodMiddleware
Behaviours ==
    { <<"Pass", TRUE>>, <<"Auth", TRUE>>, <<"Catch", TRUE>>,
      <<"NotCallable", FALSE>>, <<"Pass", FALSE>> }

\* default_middleware: the default resolver, the tests' DefaultMiddleware,
\* or None
DefaultChoices ==
    { <<DefaultResolver>>, <<Mw("D", 1, "SetTarget", TRUE)>>, <<>> }

\* the names the caller starts its paths with, and extends them with
TopNames == {"users"}

MemberNames == {"user_test_method", "authenticated_method"}

\* the caller extends its builder, up to MaxPath segments
Grow(name) == Len(builders[1].path) < MaxPath /\ Extend(1, 1, name)

\* dm.register_services(users=UsersService()), once
RegisterUsers ==
    /\ "users" \notin DOMAIN services
    /\ RegisterServices(<< <<"users", "UsersSvc">> >>)

Next ==
    \/ \E l \in MwLists(Behaviours) : MakeList(l)
    \/ \E d \in DefaultChoices : Construct(d)
    \/ BeginContext
    \/ EndContext
    \/ RegisterUsers
    \/ \E n \in TopNames : StartPath(1, n)
    \/ \E n \in MemberNames : Grow(n)
    \/ Invoke(1, <<>>, <<>>)
    \/ MiddlewareCall
    \/ TerminalHandler
    \/ Return
    \/ Finish

Spec == Init /\ [][Next]_vars

-----------------------------------------------------------------------------
(* What a finished call shows *)

\* the chain the facade was asked for: the user's interceptors as they were
\* handed to the constructor, then the default ones
AskedChain == built.user \o built.defaults

\* the enter, call and exit observations, as <<what, who>>
RECURSIVE Visits(_)
Visits(evs) ==
    IF evs = <<>>
    THEN <<>>
    ELSE IF Head(evs).ev = "raise"
         THEN Visits(Tail(evs))
         ELSE << <<Head(evs).ev, Head(evs).who>> >> \o Visits(Tail(evs))

\* I1-enter, ..., Dm-enter, H, Dm-exit, ..., I1-exit
OnionTrace(chain) ==
    [i \in 1..Len(chain) |-> <<"enter", chain[i]>>]
    \o << <<"call", Handler>> >>
    \o [i \in 1..Len(chain) |-> <<"exit", chain[Len(chain) + 1 - i]>>]

ReachedHandler == \E i \in 1..Len(events) : events[i].ev = "call"

\* an interceptor among positions 1..k of the chain catches what its next
\* handler raises
CatcherWithin(chain, k) ==
    \E j \in 1..k : j <= Len(chain) /\ chain[j].kind = "Catch"

\* the positions of the exits observed after observation i
ExitsAfter(i) == [j \in 1..(Len(events) - i) |-> events[i + j].at]

\* k, k-1, ..., 1
CountDown(k) == [j \in 1..k |-> k + 1 - j]

\* C1: a call that reaches the terminal handler H shows exactly
\* I1-enter, ..., In-enter, D1-enter, ..., Dm-enter, H, Dm-exit, ..., D1-exit,
\* In-exit, ..., I1-exit, for the user interceptors I and default
\* interceptors D the facade was built with, on every call of the facade.
C1_OnionOrder ==
    (pc = "done" /\ ReachedHandler) => Visits(events) = OnionTrace(AskedChain)

C1_Witness ==
    /\ pc = "done"
    /\ ReachedHandler
    /\ Len(built.user) = 2
    /\ Len(built.defaults) = 1
    /\ built.user[1].kind = "Pass"
    /\ built.user[2].kind = "Auth"
    /\ outcome.val = "test-method-result"

\* C2 as stated: when an interceptor raises before calling its next
\* handler, the terminal handler and every inner interceptor never run and
\* the caller receives exactly the raised error.
C2_AbortAsStated ==
    pc = "done" =>
        \A i \in 1..Len(events) :
            (events[i].ev = "raise" /\ events[i].who # Handler) =>
                /\ ~ReachedHandler
                /\ invoked = <<>>
                /\ \A j \in 1..Len(events) : events[j].at <= events[i].at
                /\ outcome.err = events[i].err

\* C2, amended: when an interceptor raises before calling its next handler,
\* the terminal handler and every inner interceptor never run, and the
\* caller receives exactly the raised error unless an interceptor outer to
\* the raising one catches it.
C2_Abort ==
    pc = "done" =>
        \A i \in 1..Len(events) :
            (events[i].ev = "raise" /\ events[i].who # Handler) =>
                /\ ~ReachedHandler
                /\ invoked = <<>>
                /\ \A j \in 1..Len(events) : events[j].at <= events[i].at
                /\ ~CatcherWithin(AskedChain, events[i].at - 1)
                      => outcome.err = events[i].err

C2_Witness ==
    /\ pc = "done"
    /\ Len(AskedChain) = 3
    /\ AskedChain[2].kind = "Auth"
    /\ AskedChain[3].kind = "SetTarget"
    /\ outcome.err = Error("SpecificException", 2)
    /\ Len(events) = 5

\* C3: when an error is raised at position k of the chain (by interceptor
\* k, by the resolver, or by the terminal handler behind the last
\* interceptor), nothing after position k is entered, the error leaves
\* through the interceptors already entered, innermost first, and reaches
\* the caller unchanged unless one of them catches it.
C3_Unwind ==
    pc = "done" =>
        \A i \in 1..Len(events) :
            events[i].ev = "raise" =>
                LET k == events[i].at
                    top == IF events[i].who = Handler THEN k - 1 ELSE k
                IN /\ \A j \in 1..Len(events) : events[j].at <= k
                   /\ \A j \in (i + 1)..Len(events) :
                         /\ events[j].ev = "exit"
                         /\ events[j].who = AskedChain[events[j].at]
                         /\ events[j].err =
                               IF \E c \in events[j].at..top :
                                      AskedChain[c].kind = "Catch"
                               THEN NoError
                               ELSE events[i].err
                   /\ ExitsAfter(i) = CountDown(top)
                   /\ outcome.err = IF CatcherWithin(AskedChain, top)
                                    THEN NoError
                                    ELSE events[i].err

C3_Witness ==
    /\ pc = "done"
    /\ Len(AskedChain) = 3
    /\ AskedChain[1].kind = "Pass"
    /\ AskedChain[2].kind = "Pass"
    /\ AskedChain[3].kind = "Resolver"
    /\ outcome.err.type = "DalMethodError"
    /\ outcome.err.at = 3
    /\ Len(events) = 7

-----------------------------------------------------------------------------
(* The registry specification: the data manager's own facade, services     *)
(* registered and replaced under two names, contexts begun and ended.      *)

MaxReg == 2         \* most names in one register_services call

RegNames == {"users", "other"}

RegServices == {"UsersSvc", "AltSvc"}

\* the keyword arguments of a register_services call: up to MaxReg distinct
\* names, in the order they were written
Mappings ==
    UNION { { m \in [1..n -> RegNames \X RegServices] :
                \A i, j \in 1..n : i # j => m[i][1] # m[j][1] } :
            n \in 1..MaxReg }

NextFacade ==
    \/ BeginContext
    \/ EndContext
    \/ \E m \in Mappings : RegisterServices(m)
    \/ \E n \in RegNames, sv \in RegServices : ReplaceService(n, sv)
    \/ \E n \in RegNames : StartPath(1, n)
    \/ Grow("user_test_method")
    \/ Invoke(1, <<>>, <<>>)
    \/ MiddlewareCall
    \/ TerminalHandler
    \/ Return
    \/ Finish

SpecFacade == Init /\ [][NextFacade]_vars

-----------------------------------------------------------------------------
(* The resolution specification: the data manager's own facade with the    *)
(* tests' tree of services registered, and paths of any depth into it.     *)

\* users.profile.sample.example.demo
TreeNames == <<"users", "profile", "sample", "example", "demo">>

TreeServices == <<"UsersSvc", "ProfileSvc", "SampleSvc", "ExampleSvc", "DemoSvc">>

DeepNames ==
    { TreeNames[i] : i \in 1..5 } \cup { MethodOf(TreeServices[i]) : i \in 1..5 }
    \cup {"invalid_service", "invalid_method"}

\* the registry of the tests: users is registered, with its sub-services
UsersRegistry == Store(EmptyServices, "users", "UsersSvc")

RECURSIVE MatchFrom(_, _, _, _)
\* how many leading segments of path name a node of the tree, walking from
\* node cur at segment i
MatchFrom(svcs, path, i, cur) ==
    IF i > Len(path)
    THEN Len(path)
    ELSE LET nxt == IF IsDict(cur)
                    THEN DictGet(svcs, path[i])
                    ELSE IF HasAttr(cur, path[i])
                         THEN AttrValue(cur, path[i])
                         ELSE NoNode
         IN IF nxt = NoNode THEN i - 1 ELSE MatchFrom(svcs, path, i + 1, nxt)

Matched(svcs, path) == MatchFrom(svcs, path, 1, RootNode)

RECURSIVE NodeFrom(_, _, _, _)
\* the node a fully matched path names
NodeFrom(svcs, path, i, cur) ==
    IF i > Len(path)
    THEN cur
    ELSE NodeFrom(svcs, path, i + 1,
                  IF IsDict(cur) THEN DictGet(svcs, path[i])
                                 ELSE AttrValue(cur, path[i]))

\* the path names a method of the tree
ReachesMethod(svcs, path) ==
    /\ Matched(svcs, path) = Len(path)
    /\ IsMethod(NodeFrom(svcs, path, 1, RootNode))

\* the caller extends its builder, at most MaxMiss segments past the tree
GrowDeep(name) ==
    /\ builders[1] # NoBuilder
    /\ Len(builders[1].path) + 1
          - Matched(UsersRegistry, Append(builders[1].path, name))
          <= MaxMiss
    /\ Extend(1, 1, name)

NextResolve ==
    \/ BeginContext
    \/ RegisterUsers
    \/ \E n \in DeepNames : StartPath(1, n)
    \/ \E n \in DeepNames : GrowDeep(n)
    \/ Invoke(1, <<>>, <<>>)
    \/ MiddlewareCall
    \/ TerminalHandler
    \/ Return
    \/ Finish

SpecResolve == Init /\ [][NextResolve]_vars

-----------------------------------------------------------------------------
(* Claims about the context guard, resolution and registration *)

\* the call goes through the default chain: the resolver, then the handler
DefaultChain == handler = ComposeHandler(<<DefaultResolver>>)

\* C4 as stated: whatever contexts were begun and ended before, a path
\* started on the facade or a builder invoked while no context is active
\* fails with the no-active-context error, before any interceptor is
\* entered and before any registry lookup or path walking.
C4_ContextGuard ==
    [][ /\ \A n \in TopNames :
              (StartPath(1, n) /\ ctxDepth = 0) =>
                  /\ outcome'.err.type = "AssertionError"
                  /\ builders' = builders
        /\ (req'.ctx = 0 /\ pc' \in {"enter", "leave", "done"}) =>
              /\ events' = <<>>
              /\ invoked' = <<>>
              /\ pc' = "done" => outcome'.err.type = "AssertionError"
      ]_vars

\* what the tests' service methods return, by depth
TreeResults ==
    <<"user-service", "profile-nested-service", "sample-nested-service",
      "example-nested-service", "demo-nested-service">>

\* users. ... .<service d>.<method of service d>
MethodPath(d) == SubSeq(TreeNames, 1, d) \o <<MethodOf(TreeServices[d])>>

\* C5: with users -> profile -> sample -> example -> demo registered, a call
\* inside an open context whose path names the services down to depth d and
\* then that service's method invokes exactly that method and returns its
\* result unmodified, for d = 1..5.
C5_NestedResolution ==
    \A d \in 1..5 :
        ( /\ pc = "done"
          /\ DefaultChain
          /\ req.ctx # 0
          /\ services = UsersRegistry
          /\ req.path = MethodPath(d) )
        => /\ outcome.err = NoError
           /\ outcome.val = TreeResults[d]
           /\ invoked = << [target |-> MethodNode(TreeServices[d],
                                                  MethodOf(TreeServices[d])),
                            args |-> req.args, kwargs |-> req.kwargs] >>

C5_Witness ==
    /\ pc = "done"
    /\ DefaultChain
    /\ req.ctx # 0
    /\ req.path = MethodPath(5)
    /\ outcome.val = "demo-nested-service"

\* C6 as stated: a call whose path does not reach an invocable target,
\* wherever its first unmatched segment lies, raises the resolution error
\* and no other, and the terminal handler is not invoked.
C6_ResolutionErrorOnly ==
    ( /\ pc = "done"
      /\ DefaultChain
      /\ req.ctx # 0
      /\ ~ReachesMethod(services, req.path) )
    => /\ outcome.err.type = "DalMethodError"
       /\ ~ReachedHandler
       /\ invoked = <<>>

\* C7 as stated: when segment k is the first that does not match, the
\* resolution error's prefix is exactly the segments before k, whatever
\* follows segment k.
C7_MatchedPrefix ==
    ( /\ pc = "done"
      /\ DefaultChain
      /\ req.ctx # 0
      /\ Matched(services, req.path) < Len(req.path) )
    => /\ outcome.err.type = "DalMethodError"
       /\ outcome.err.hasPath
       /\ outcome.err.path = SubSeq(req.path, 1, Matched(services, req.path))

\* a name of the mapping is registered already
Collides(m) == \E i \in 1..Len(m) : m[i][1] \in DOMAIN services

\* C8 as stated: register_services(mapping) with a name that is already
\* registered raises the already-exists error and leaves the registry as it
\* was: no name of the mapping is added, no entry is replaced.
C8_RegistryUnchanged ==
    [][ \A m \in Mappings :
            (RegisterServices(m) /\ Collides(m)) =>
                /\ outcome'.err.type = "AlreadyExistsException"
                /\ services' = services
      ]_vars

\* a register_services call that names a registered name raises and leaves
\* every registered name with the service it had
RefusesRegistered ==
    \A m \in Mappings :
        (RegisterServices(m) /\ Collides(m)) =>
            /\ outcome'.err.type = "AlreadyExistsException"
            /\ \A n \in DOMAIN services :
                  n \in DOMAIN services' /\ services'[n] = services[n]

\* a call n.<method> invokes the method of the service registered under n
CallsRegistered ==
    \A n \in RegNames :
        ( /\ pc = "done"
          /\ DefaultChain
          /\ req.ctx # 0
          /\ n \in DOMAIN services
          /\ req.path = <<n, MethodOf(services[n])>> )
        => /\ outcome.err = NoError
           /\ invoked = << [target |-> MethodNode(services[n], req.path[2]),
                            args |-> req.args, kwargs |-> req.kwargs] >>

\* C9: once register_services(n=s1) has succeeded, a later
\* register_services(n=s2) raises the already-exists error and leaves s1
\* under n, and a call through n.<method> invokes the method of the service
\* registered under n: s1, never s2.
C9_FirstRegistrationStays ==
    [][RefusesRegistered]_vars /\ []CallsRegistered

C9_Witness ==
    /\ pc = "done"
    /\ <<"users", "AltSvc">> \in refused
    /\ services = UsersRegistry
    /\ req.path = <<"users", "user_test_method">>
    /\ outcome.val = "user-service"

\* C10 as stated: constructing a DataAccessLayer from an interceptor list
\* that holds an entry that is no MethodMiddleware fails, at construction,
\* with the invalid-middleware error, and no facade is produced.
C10_InvalidMiddlewareRejected ==
    (outcome.op = "construct" /\ \E i \in 1..Len(userList) : ~userList[i].mm)
        => outcome.err.type = "InvalidMiddleware"

-----------------------------------------------------------------------------
(* Claims about where the default interceptors sit *)

\* the interceptors of a composed handler, outermost first
RECURSIVE Links(_)
Links(h) == IF Len(h) = 3 THEN <<h[2]>> \o Links(h[3]) ELSE <<>>

\* the interceptors entered by the call, in the order they were entered
RECURSIVE Entered(_)
Entered(evs) ==
    IF evs = <<>>
    THEN <<>>
    ELSE IF Head(evs).ev = "enter"
         THEN <<Head(evs).who>> \o Entered(Tail(evs))
         ELSE Entered(Tail(evs))

\* s is the first Len(s) entries of t
IsPrefix(s, t) == Len(s) <= Len(t) /\ SubSeq(t, 1, Len(s)) = s

-----------------------------------------------------------------------------
(* The builder specification: builders made directly with the tests'       *)
(* handler or started on the facade, extended into other builders and      *)
(* invoked with arguments.                                                 *)

MaxDepth == 3       \* longest path of a builder in the builder specification

\* the slots that hold builders derived from other builders
DerivedSlots == {2, 3}

\* the names builders are extended with
BuilderNames == {"foo", "user_test_method"}

\* path_arg('animals') of the tests
AnimalsPath == <<PathSegment("animals")>>

\* the arguments of the calls: none, or the tests' ('foo', 'bar') and
\* example='test'
CallInputs ==
    { << <<>>, <<>> >>, << <<"foo", "bar">>, << <<"example", "test">> >> >> }

\* builder.<name>, kept in slot dst; paths of up to MaxDepth segments
Derive(src, dst, name) ==
    /\ Len(builders[src].path) < MaxDepth
    /\ Extend(src, dst, name)

NextBuilder ==
    \/ BeginContext
    \/ RegisterUsers
    \/ MakeRequester(1, TestHandler, AnimalsPath)
    \/ \E n \in TopNames : StartPath(1, n)
    \/ \E src \in Slots, dst \in DerivedSlots, n \in BuilderNames : Derive(src, dst, n)
    \/ \E s \in Slots, c \in CallInputs : Invoke(s, c[1], c[2])
    \/ MiddlewareCall
    \/ TerminalHandler
    \/ Return
    \/ Finish

SpecBuilder == Init /\ [][NextBuilder]_vars

\* the sequences of 0..MaxDepth names
NameSeqs == UNION { [1..n -> BuilderNames] : n \in 0..MaxDepth }

\* b.<s1>.<s2>. ... .<sn>
RECURSIVE Chain(_, _)
Chain(b, names) ==
    IF names = <<>> THEN b ELSE Chain(RequesterGetattr(b, Head(names)), Tail(names))

\* the step puts a new builder into slot s
Creates(s) ==
    \/ \E n \in TopNames : StartPath(s, n)
    \/ MakeRequester(s, TestHandler, AnimalsPath)
    \/ \E src \in Slots, n \in BuilderNames : Extend(src, s, n)

\* C13: a builder never changes: whatever is done with it or with builders
\* derived from it (extensions into other builders, invocations, the steps
\* of the calls), its path stays what it was when it was created, and an
\* extension b.x holds b's path plus its own segment only, whatever other
\* extensions of b were made.
C13_BuilderUnchanged ==
    [][ /\ \A s \in Slots :
              builders'[s] # builders[s] => (Creates(s) /\ outcome'.err = NoError)
        /\ \A src \in Slots, dst \in DerivedSlots, n \in BuilderNames :
              Extend(src, dst, n) =>
                  /\ builders'[dst].path = builders[src].path \o <<PathSegment(n)>>
                  /\ \A s \in Slots \ {dst} : builders'[s] = builders[s]
      ]_vars

C13_Witness ==
    /\ builders[1].path = AnimalsPath
    /\ builders[2].path = AnimalsPath \o <<"foo">>
    /\ builders[3].path = AnimalsPath \o <<"user_test_method">>
    /\ outcome.op = "handler"
    /\ outcome.val[1] = builders[2].path

\* C14: extending a builder b with names s1, ..., sn in that order gives a
\* builder whose path is b's path followed by s1, ..., sn in that order,
\* for every builder b the program makes and every sequence of names.
C14_PathOrder ==
    \A s \in Slots : \A names \in NameSeqs :
        builders[s] # NoBuilder =>
            Chain(builders[s], names).path
                = builders[s].path \o [i \in 1..Len(names) |-> PathSegment(names[i])]

C14_Witness ==
    /\ builders[2].path = <<"animals", "foo", "user_test_method">>
    /\ builders[1].path = <<"animals">>
    /\ Chain(builders[1], <<"foo", "user_test_method">>) = builders[2]

\* the call the step starts on the builder in slot s reaches its handler
\* with the builder's path and the caller's arguments
HandlerCalled(s, args, kwargs) ==
    IF builders[s].handler = TestHandler
    THEN /\ outcome'.op = "handler"
         /\ outcome'.val = <<builders[s].path, args, kwargs>>
         /\ outcome'.err = NoError
         /\ req' = NoRequest
    ELSE /\ req' = DalMethodRequest(ctxDepth, builders[s].path, args, kwargs)
         /\ todo' = handler
         /\ events' = <<>>

\* the caller receives what the facade's handler returned or raised
HandlerResultReturned ==
    (pc = "done" /\ outcome.op = "call") =>
        /\ outcome = Outcome("call", ret)
        /\ Len(invoked) <= 1
        /\ invoked # <<>> =>
              /\ invoked[1].args = req.args
              /\ invoked[1].kwargs = req.kwargs
              /\ outcome.val = ResultOf(invoked[1].target)

\* C15: every builder derived from a builder b is bound to b's handler, and
\* invoking a builder calls that handler once with the builder's path and
\* the caller's positional and keyword arguments as given, and returns what
\* the handler returns.
C15_HandlerKept ==
    /\ [](\A s \in Slots : \A names \in NameSeqs :
              builders[s] # NoBuilder =>
                  Chain(builders[s], names).handler = builders[s].handler)
    /\ [][  /\ \A src \in Slots, dst \in DerivedSlots, n \in BuilderNames :
                  Extend(src, dst, n) => builders'[dst].handler = builders[src].handler
            /\ \A s \in Slots, c \in CallInputs :
                  Invoke(s, c[1], c[2]) => HandlerCalled(s, c[1], c[2])
          ]_vars
    /\ []HandlerResultReturned

C15_Witness ==
    /\ pc = "done"
    /\ outcome.op = "call"
    /\ builders[1].path = <<"users">>
    /\ builders[3] = Requester(FacadeCall, <<"users", "user_test_method">>)
    /\ builders[2].handler = TestHandler
    /\ req.args = <<"foo", "bar">>
    /\ invoked # <<>>
    /\ outcome.val = "user-service"

\* the step names a segment: a path started on the facade or a builder
\* extended
BuildsPath ==
    \/ \E s \in Slots, n \in TopNames : StartPath(s, n)
    \/ \E src \in Slots, dst \in Slots, n \in BuilderNames : Extend(src, dst, n)

\* C16: building a path, to any depth, creates no request, enters no
\* interceptor, looks nothing up in the registry and calls no service
\* method; interceptors are entered only in a call started by invoking a
\* builder.
C16_LazyPath ==
    /\ [][ BuildsPath =>
              /\ req' = NoRequest
              /\ events' = <<>>
              /\ invoked' = <<>>
              /\ pc' = "idle"
              /\ services' = services
          ]_vars
    /\ []( events # <<>> =>
              /\ req # NoRequest
              /\ req.path # <<>>
              /\ outcome.op = "call" )

C16_Witness ==
    /\ pc = "idle"
    /\ outcome.op = "getattr"
    /\ builders[2] = Requester(FacadeCall, <<"users", "foo", "user_test_method">>)
    /\ "users" \in DOMAIN services

-----------------------------------------------------------------------------
(* The surface specification: facades of both modules, interceptors given  *)
(* as instances and as classes, calls through them and string-keyed        *)
(* lookups.                                                                *)

\* an interceptor instance that passes the request on, and its class
FactoryBehaviours == { <<"Pass", TRUE>>, <<"PassClass", FALSE>> }

\* default_middleware: the resolver instance, the resolver class, or None
FactoryDefaults == { <<DefaultResolver>>, <<ResolverClass>>, <<>> }

FacadeClasses == {"dal", "middleware"}

\* what pdb.set_trace() can do to the program
DebuggerOutcomes == {"continue", "quit"}

\* the strings looked up
PathStrings ==
    { Dotted(t) : t \in { <<"users">>, <<"users", "user_test_method">>,
                          <<"users", "profile", "profile_test_method">>,
                          <<"users", "invalid_method">>, <<"profile">>,
                          <<"dal", "users", "user_test_method">>, <<"dal">> } }

\* the arguments of the calls: none, or a tuple and a dict given
\* positionally
SurfaceInputs == { << <<>>, <<>> >>, << << <<"x">>, <<>> >>, <<>> >> }

\* register_services(users=UsersService())
UsersMapping == << <<"users", "UsersSvc">> >>

NextSurface ==
    \/ \E l \in MwLists(FactoryBehaviours) : MakeList(l)
    \/ \E d \in FactoryDefaults : Construct(d)
    \/ \E cls \in FacadeClasses : NewDataManager(cls)
    \/ BeginContext
    \/ RegisterUsers
    \/ \E dbg \in DebuggerOutcomes : MiddlewareRegisterServices(UsersMapping, dbg)
    \/ \E n \in TopNames : StartPath(1, n)
    \/ \E n \in TopNames, dbg \in DebuggerOutcomes : MiddlewareStartPath(1, n, dbg)
    \/ Grow("user_test_method")
    \/ \E c \in SurfaceInputs : Invoke(1, c[1], c[2])
    \/ \E str \in PathStrings : GetItem(str)
    \/ MiddlewareCall
    \/ TerminalHandler
    \/ Return
    \/ Finish

SpecSurface == Init /\ [][NextSurface]_vars

\* the chain with every class replaced by an instance of it
Instances(chain) == [i \in 1..Len(chain) |-> InstanceOf(chain[i])]

RECURSIVE RunChain(_, _, _, _)
\* what a call with the request returns or raises when it runs through the
\* interceptors of chain, from position at on, and the terminal handler
RunChain(chain, svcs, request, at) ==
    IF chain = <<>>
    THEN HandleDalMethod(request, at).ret
    ELSE LET b == InterceptorBody(svcs, Head(chain), request, at) IN
         IF b.go
         THEN InterceptorExit(Head(chain), RunChain(Tail(chain), svcs, b.req, at + 1))
         ELSE InterceptorExit(Head(chain), b.ret)

\* the facade was built from a chain with a class in it
HasFactory == \E i \in 1..Len(Links(handler)) : IsFactory(Links(handler)[i])

\* C11 as stated: an interceptor given as a class is instantiated at
\* construction and not during calls, and every call through the facade
\* ends as it would through a facade built from the instances.
C11_FactoryInstantiatedOnce ==
    /\ \A i \in 1..Len(events) : events[i].ev # "instantiate"
    /\ (pc = "done" /\ outcome.op = "call" /\ req # NoRequest /\ HasFactory) =>
          outcome = Outcome("call",
                            RunChain(Instances(Links(handler)), services,
                                     DalMethodRequest(req.ctx, req.path, req.args,
                                                      req.kwargs), 1))

\* the node the names lead to from the registry, a leading dal left out
Target(svcs, names) ==
    LET rest == IF Head(names) = "dal" THEN Tail(names) ELSE names IN
    IF rest # <<>> /\ Matched(svcs, rest) = Len(rest)
    THEN NodeFrom(svcs, rest, 1, RootNode)
    ELSE NoNode

\* the names of the lookups
LookupNames ==
    { <<"users">>, <<"users", "user_test_method">>,
      <<"users", "profile", "profile_test_method">>,
      <<"users", "invalid_method">>, <<"profile">>,
      <<"dal", "users", "user_test_method">>, <<"dal">> }

\* C17: dal[path] returns the node the dot-delimited path leads to from the
\* registry (or raises when it leads nowhere), and enters no interceptor,
\* creates no request and invokes nothing, whatever chain the facade has
\* and whether or not a context is open.
C17_LookupBypassesPipeline ==
    [][ \A t \in LookupNames :
            (outcome'.op = "getitem" /\ GetItem(Dotted(t))) =>
                /\ req' = NoRequest
                /\ events' = <<>>
                /\ invoked' = <<>>
                /\ pc' = "idle"
                /\ UNCHANGED <<facadeVars, ctxDepth, builders>>
                /\ IF Target(services, t) # NoNode
                   THEN /\ outcome'.err = NoError
                        /\ outcome'.val = Target(services, t)
                   ELSE outcome'.err # NoError
      ]_vars

C17_Witness ==
    /\ outcome.op = "getitem"
    /\ outcome.err = NoError
    /\ outcome.val = MethodNode("ProfileSvc", "profile_test_method")
    /\ Len(Links(handler)) = 3
    /\ ctxDepth = 0

\* a register_services(users=...) step, on either facade
RegistersUsers ==
    \/ RegisterServices(UsersMapping)
    \/ \E dbg \in DebuggerOutcomes : MiddlewareRegisterServices(UsersMapping, dbg)

\* the data manager was made with its default chain
ManagerFacade == built.user = <<>> /\ built.defaults = DefaultMiddlewareOf(built.cls)

\* C20 as stated: a data manager whose facade is the middleware module's
\* does what one with the default facade does: register_services(users=s)
\* succeeds, and a call users.<method>() with no arguments inside an open
\* context reaches the method through the pipeline and returns its result.
C20_MiddlewareFacadeWorks ==
    /\ [][ ( /\ ManagerFacade
               /\ services = EmptyServices
               /\ outcome'.op = "register_services"
               /\ RegistersUsers )
             => outcome'.err = NoError
          ]_vars
    /\ []( ( /\ pc = "done"
             /\ outcome.op = "call"
             /\ ManagerFacade
             /\ ctxDepth > 0
             /\ builders[1].path = <<"users", "user_test_method">> )
           => /\ outcome.err = NoError
              /\ outcome.val = "user-service" )

-----------------------------------------------------------------------------
(* The setup specification: services, one of them with a setup that        *)
(* raises, registered and replaced on the data manager's own facade.       *)

SetupServices == {"UsersSvc", "AltSvc", "BrokenSvc"}

\* the keyword arguments of a register_services call, as Mappings
SetupMappings ==
    UNION { { m \in [1..n -> RegNames \X SetupServices] :
                \A i, j \in 1..n : i # j => m[i][1] # m[j][1] } :
            n \in 1..MaxReg }

NextSetup ==
    \/ \E m \in SetupMappings : RegisterServices(m)
    \/ \E n \in RegNames, sv \in SetupServices : ReplaceService(n, sv)

SpecSetup == Init /\ [][NextSetup]_vars

-----------------------------------------------------------------------------
(* Claims about replace_service and the setup of services *)

\* every entry but the one under name n is as it was
OthersUnchanged(n) ==
    /\ DOMAIN services' = DOMAIN services \cup {n}
    /\ \A k \in DOMAIN services \ {n} : services'[k] = services[k]

\* C18: replace_service(name, service) sets the service up and then stores
\* it under name whether or not name was registered, never raising the
\* already-exists error: when setup returns, the registry afterwards has the
\* new service under name and every other entry as it was.
C18_ReplaceUnconditional ==
    [][ \A n \in RegNames, sv \in SetupServices :
            ReplaceService(n, sv) =>
                /\ invoked' = <<SetupCall(sv)>>
                /\ outcome'.err.type # "AlreadyExistsException"
                /\ ~SetupRaises(sv) =>
                      /\ outcome'.err = NoError
                      /\ services'[n] = sv
                      /\ OthersUnchanged(n)
      ]_vars

C18_Witness ==
    /\ outcome.op = "replace_service"
    /\ outcome.err = NoError
    /\ <<"users", "AltSvc">> \in refused
    /\ DOMAIN services = {"users", "other"}
    /\ services["users"] = "AltSvc"
    /\ services["other"] = "UsersSvc"

\* the services the registry resolves to
Resolvable(svcs) == { svcs[n] : n \in DOMAIN svcs }

\* how many times x occurs in seq
Count(seq, x) == Cardinality({ i \in 1..Len(seq) : seq[i] = x })

\* the step is a register_services or a replace_service
Registers ==
    \/ \E m \in SetupMappings : RegisterServices(m)
    \/ \E n \in RegNames, sv \in SetupServices : ReplaceService(n, sv)

\* the names the step added to the registry with service sv
NewlyStored(sv) ==
    { n \in DOMAIN services' \ DOMAIN services : services'[n] = sv }

\* the step ended in the setup of sv raising
SetupFailed(sv) ==
    /\ outcome'.err.type = "SetupError"
    /\ invoked' # <<>>
    /\ invoked'[Len(invoked')] = SetupCall(sv)

\* C19 as stated: a service that becomes resolvable has had its setup
\* called exactly once, before it was stored: one setup for a service the
\* step makes resolvable, and none for a service that was resolvable, and so
\* set up, already; a service whose setup raises is not stored.
C19_SetupOnceAsStated ==
    [][ Registers =>
            \A sv \in SetupServices :
                /\ (sv \in Resolvable(services') \ Resolvable(services)) =>
                      Count(invoked', SetupCall(sv)) = 1
                /\ sv \in Resolvable(services) =>
                      Count(invoked', SetupCall(sv)) = 0
                /\ SetupFailed(sv) => sv \notin Resolvable(services')
      ]_vars

\* the entry under name n is what it was, or as absent as it was
EntryUnchanged(n) ==
    IF n \in DOMAIN services
    THEN n \in DOMAIN services' /\ services'[n] = services[n]
    ELSE n \notin DOMAIN services'

\* C19, amended: every register_services entry and every replace_service
\* sets the service up exactly once, with the owning data manager, before
\* storing it: one setup for each name the step stores the service under
\* (a service registered under several names, or again, is set up each
\* time); when the setup raises the service is not stored and the entry
\* for its name is as it was.
C19_SetupPerRegistration ==
    [][ /\ \A m \in SetupMappings :
              RegisterServices(m) =>
                  /\ \A i \in 1..Len(invoked') :
                        \E k \in 1..Len(m) : invoked'[i] = SetupCall(m[k][2])
                  /\ \A sv \in SetupServices :
                        Count(invoked', SetupCall(sv))
                            = Cardinality(NewlyStored(sv))
                              + (IF SetupFailed(sv) THEN 1 ELSE 0)
                  /\ \A k \in 1..Len(m) :
                        SetupRaises(m[k][2]) => EntryUnchanged(m[k][1])
        /\ \A n \in RegNames, sv \in SetupServices :
              ReplaceService(n, sv) =>
                  /\ invoked' = <<SetupCall(sv)>>
                  /\ IF SetupRaises(sv)
                     THEN /\ outcome'.err.type = "SetupError"
                          /\ services' = services
                     ELSE /\ outcome'.err = NoError
                          /\ services'[n] = sv
      ]_vars

C19_Witness ==
    /\ outcome.op = "register_services"
    /\ outcome.err.type = "SetupError"
    /\ invoked = <<SetupCall("UsersSvc"), SetupCall("BrokenSvc")>>
    /\ services = UsersRegistry

-----------------------------------------------------------------------------
(* The interleaving specification: two callers of one facade, each making  *)
(* calls through builders bound to it, one running while the other waits   *)
(* where it stopped. Facades are built and services registered while no    *)
(* call is in flight.                                                      *)

\* lists of interceptors that write the request: its target, its
\* arguments, or both
RewriteLists ==
    { << Mw("I", 1, "SetTarget", TRUE) >>,
      << Mw("I", 1, "AddArg", TRUE) >>,
      << Mw("I", 1, "AddArg", TRUE), Mw("I", 2, "SetTarget", TRUE) >> }

\* default_middleware: the default resolver, or None
ResolverOrNone == { <<DefaultResolver>>, <<>> }

\* register_services(users=UsersService(), other=AltService())
TwoServices == << <<"users", "UsersSvc">>, <<"other", "AltSvc">> >>

\* the slots of the builders the callers invoke
CallerSlots == {1, 2}

\* the path of the builder kept in the slot
CallerPath(s) ==
    IF s = 1 THEN <<PathSegment("users"), PathSegment("user_test_method")>>
             ELSE <<PathSegment("other"), PathSegment("user_test_method")>>

\* the waiting caller has no call in flight and none finished
Settled == other.pc = "idle"

NextInterleave ==
    \/ Settled /\ \E l \in RewriteLists : MakeList(l)
    \/ Settled /\ \E d \in ResolverOrNone : Construct(d)
    \/ Settled /\ ctxDepth = 0 /\ BeginContext
    \/ Settled /\ services = EmptyServices /\ RegisterServices(TwoServices)
    \/ \E s \in CallerSlots : MakeRequester(s, FacadeCall, CallerPath(s))
    \/ \E s \in CallerSlots, c \in CallInputs : Invoke(s, c[1], c[2])
    \/ MiddlewareCall
    \/ TerminalHandler
    \/ Return
    \/ Finish
    \/ Switch

SpecInterleave == Init /\ [][NextInterleave]_vars

RECURSIVE Arrives(_, _, _, _)
\* whether a request that enters the chain at position at gets to the
\* terminal handler, and the request as it is then
Arrives(chain, svcs, request, at) ==
    IF chain = <<>>
    THEN [reached |-> TRUE, req |-> request]
    ELSE LET b == InterceptorBody(svcs, Head(chain), request, at) IN
         IF b.go
         THEN Arrives(Tail(chain), svcs, b.req, at + 1)
         ELSE [reached |-> FALSE, req |-> b.req]

\* the request a caller's call began with
FirstRequest(w) ==
    DalMethodRequest(w.req.ctx, w.asked.path, w.asked.args, w.asked.kwargs)

\* a finished call of caller w invoked and returned what its own path and
\* arguments lead to through the facade's chain
OwnCall(w) ==
    (w.pc = "done" /\ w.outcome.op = "call") =>
        LET a == Arrives(Links(handler), services, FirstRequest(w), 1) IN
        /\ w.outcome = Outcome("call", RunChain(Links(handler), services,
                                                FirstRequest(w), 1))
        /\ w.invoked = IF a.reached /\ Truthy(a.req.dal_method)
                       THEN << [target |-> a.req.dal_method, args |-> a.req.args,
                                kwargs |-> a.req.kwargs] >>
                       ELSE <<>>

\* the step belongs to the call of the running caller
CallStep == MiddlewareCall \/ TerminalHandler \/ Return \/ Finish

\* C21: every invocation of a builder makes a request of its own, with the
\* target unset, and only the steps of that invocation see it: of two calls
\* on one facade, one after the other or interleaved, through the same
\* builder or two, each invokes the target and passes the arguments its own
\* path and arguments lead to, whatever the interceptors wrote into the
\* request of the other.
C21_RequestIsolation ==
    /\ [][  /\ \A s \in CallerSlots, c \in CallInputs :
                  Invoke(s, c[1], c[2]) =>
                      /\ req' = DalMethodRequest(ctxDepth, builders[s].path,
                                                 c[1], c[2])
                      /\ req'.dal_method = NoNode
                      /\ other' = other
            /\ (CallStep => other' = other)
            /\ (Switch =>
                  /\ other'.req = req
                  /\ other'.invoked = invoked
                  /\ req' = other.req
                  /\ invoked' = other.invoked)
          ]_vars
    /\ [](OwnCall(Waiting) /\ OwnCall(other))

\* both calls are in flight: the running one, made with arguments, has
\* invoked users' method with them and the argument its interceptor added;
\* the waiting one, made without, is about to invoke other's method
C21_Witness ==
    /\ Links(handler) = <<Mw("I", 1, "AddArg", TRUE), DefaultResolver>>
    /\ pc = "leave"
    /\ frames = <<Mw("I", 1, "AddArg", TRUE)>>
    /\ asked = Ask(CallerPath(1), <<"foo", "bar">>, << <<"example", "test">> >>)
    /\ invoked = << [target |-> MethodNode("UsersSvc", "user_test_method"),
                     args |-> <<"foo", "bar", "added">>,
                     kwargs |-> << <<"example", "test">>, <<"by", "interceptor">> >>] >>
    /\ other.pc = "enter"
    /\ other.todo = TerminalH
    /\ other.asked = Ask(CallerPath(2), <<>>, <<>>)
    /\ other.req.args = <<"added">>
    /\ other.req.dal_method = MethodNode("AltSvc", "user_test_method")

-----------------------------------------------------------------------------
(* The target specification: chains of interceptors that write the         *)
(* request's target or arguments, pass it on, or return without calling    *)
(* their next handler, with and without the default resolver behind them.  *)

TargetBehaviours ==
    { <<"Pass", TRUE>>, <<"ShortCircuit", TRUE>>, <<"SetTarget", TRUE>>,
      <<"AddArg", TRUE>> }

NextTarget ==
    \/ \E l \in MwLists(TargetBehaviours) : MakeList(l)
    \/ \E d \in ResolverOrNone : Construct(d)
    \/ BeginContext
    \/ RegisterUsers
    \/ \E n \in TopNames : StartPath(1, n)
    \/ \E n \in MemberNames : Grow(n)
    \/ \E c \in CallInputs : Invoke(1, c[1], c[2])
    \/ MiddlewareCall
    \/ TerminalHandler
    \/ Return
    \/ Finish

SpecTarget == Init /\ [][NextTarget]_vars

-----------------------------------------------------------------------------
(* Claims about the resolver, short-circuits and the terminal handler *)

\* C22 as stated: every resolution error the resolver raises carries a path
\* prefix, both when a segment is absent and when every segment matches but
\* the final node is a bare service: the prefix is never left unset.
C22_ErrorCarriesPrefix ==
    ( /\ pc = "done"
      /\ outcome.op = "call"
      /\ DefaultChain
      /\ req.ctx # 0
      /\ outcome.err.type = "DalMethodError" )
    => /\ outcome.err.hasPath
       /\ outcome.err.path # <<>>
       /\ IsPrefix(outcome.err.path, req.path)

\* the place of the first interceptor of the chain that returns without
\* calling its next handler, 0 when there is none
FirstShortCircuit(chain) ==
    IF \E i \in 1..Len(chain) : chain[i].kind = "ShortCircuit"
    THEN CHOOSE i \in 1..Len(chain) :
             /\ chain[i].kind = "ShortCircuit"
             /\ \A j \in 1..(i - 1) : chain[j].kind # "ShortCircuit"
    ELSE 0

\* I1-enter, ..., Ik-enter, Ik-exit, ..., I1-exit
ShortTrace(chain, k) ==
    [i \in 1..k |-> <<"enter", chain[i]>>]
    \o [i \in 1..k |-> <<"exit", chain[k + 1 - i]>>]

\* C23: when interceptor k returns without calling its next handler, no
\* interceptor behind it, nor the resolver, nor the terminal handler runs
\* in that call; the value it returned goes back through the exits of
\* interceptors k-1, ..., 1 to the caller, and nothing is raised for the
\* part of the chain that was skipped.
C23_ShortCircuit ==
    LET k == FirstShortCircuit(Links(handler)) IN
    (pc = "done" /\ outcome.op = "call" /\ k > 0) =>
        /\ Visits(events) = ShortTrace(Links(handler), k)
        /\ \A i \in 1..Len(events) :
              /\ events[i].ev \notin {"raise", "call"}
              /\ events[i].at <= k
              /\ events[i].err = NoError
        /\ invoked = <<>>
        /\ req.dal_method = IF \E j \in 1..(k - 1) : Links(handler)[j].kind = "SetTarget"
                            THEN TestMethod
                            ELSE NoNode
        /\ outcome = Outcome("call", Returned(ShortCircuitValue))

C23_Witness ==
    /\ pc = "done"
    /\ outcome.op = "call"
    /\ Len(Links(handler)) = 3
    /\ Links(handler)[1].kind = "Pass"
    /\ Links(handler)[2].kind = "ShortCircuit"
    /\ Links(handler)[3] = DefaultResolver
    /\ services = EmptyServices
    /\ Len(events) = 4
    /\ outcome.val = ShortCircuitValue

\* how many interceptors of the chain add an argument
Adders(chain) == Cardinality({ i \in 1..Len(chain) : chain[i].kind = "AddArg" })

\* C24: the terminal handler, reached with the target set, invokes that
\* target once with the positional and keyword arguments the request holds
\* at that moment and returns its result; reached with the target unset it
\* raises the assertion error and invokes nothing.
C24_TerminalHandler ==
    /\ [][ TerminalHandler =>
              IF Truthy(req.dal_method)
              THEN /\ invoked' = Append(invoked, [target |-> req.dal_method,
                                                  args |-> req.args,
                                                  kwargs |-> req.kwargs])
                   /\ ret' = Returned(ResultOf(req.dal_method))
              ELSE /\ invoked' = invoked
                   /\ ret' = Raised(Error("AssertionError", Len(frames) + 1))
          ]_vars
    /\ []( (pc \in {"leave", "done"} /\ ReachedHandler) =>
              /\ Len(invoked) <= 1
              /\ invoked = <<>> <=> req.dal_method = NoNode
              /\ invoked # <<>> =>
                    /\ Len(invoked[1].args) = Len(asked.args) + Adders(Links(handler))
                    /\ Len(invoked[1].kwargs) = Len(asked.kwargs) + Adders(Links(handler))
                    /\ SubSeq(invoked[1].args, 1, Len(asked.args)) = asked.args )

C24_Witness ==
    /\ pc = "done"
    /\ built.defaults = <<>>
    /\ Len(Links(handler)) = 2
    /\ Links(handler)[1].kind = "SetTarget"
    /\ Links(handler)[2].kind = "AddArg"
    /\ asked.args = <<"foo", "bar">>
    /\ invoked = << [target |-> TestMethod, args |-> <<"foo", "bar", "added">>,
                     kwargs |-> << <<"example", "test">>, <<"by", "interceptor">> >>] >>
    /\ outcome.val = "test-method-result"

\* the walk of the request's path, from request.ctx.dal._services, ends on
\* a method
WalkEndsOnMethod(request) ==
    request.ctx # 0 /\ ReachesMethod(services, request.path)

\* the interceptor about to be entered is the default resolver
AtResolver == pc = "enter" /\ Len(todo) = 3 /\ todo[2] = DefaultResolver

\* C25: in a call through a chain with the default resolver in it, the
\* resolver calls its next handler if and only if the walk of request.path
\* ended on a node that is present and callable, and the next handler is
\* entered with request.dal_method equal to that node, whatever an
\* interceptor before the resolver wrote there.
C25_ResolverSetsTarget ==
    [][ (AtResolver /\ MiddlewareCall) =>
            /\ pc' = "enter" <=> WalkEndsOnMethod(req)
            /\ pc' = "enter" =>
                  /\ todo' = todo[3]
                  /\ req' = [req EXCEPT
                               !.dal_method = NodeFrom(services, req.path, 1, RootNode)]
            /\ pc' # "enter" =>
                  /\ pc' = "leave"
                  /\ ret'.err # NoError
                  /\ req' = req
      ]_vars

C25_Witness ==
    /\ pc = "done"
    /\ Len(Links(handler)) = 2
    /\ Links(handler)[1].kind = "SetTarget"
    /\ Links(handler)[2] = DefaultResolver
    /\ Len(events) = 5
    /\ invoked = << [target |-> MethodNode("UsersSvc", "user_test_method"),
                     args |-> <<>>, kwargs |-> <<>>] >>
    /\ outcome.val = "user-service"

-----------------------------------------------------------------------------
(* The lookup specification: services registered under names that include  *)
(* dal, and string-keyed lookups of paths with and without a leading dal.  *)

MaxLookup == 3      \* most names in a looked-up path, a prefixed dal apart

\* the names services are registered under
LookupTop == {"dal", "users", "profile"}

\* the names that paths are made of
LookupWords == LookupTop \cup {"user_test_method"}

\* the paths of 1..MaxLookup names
LookupSeqs == UNION { [1..n -> LookupWords] : n \in 1..MaxLookup }

\* 'dal.' + path
DalPrefixed(t) == <<"dal">> \o t

\* register_services(<name>=<service>) for a name not registered yet
RegisterOne(n, sv) ==
    /\ n \notin DOMAIN services
    /\ RegisterServices(<< <<n, sv>> >>)

NextLookup ==
    \/ \E n \in LookupTop, sv \in RegServices : RegisterOne(n, sv)
    \/ \E t \in LookupSeqs : GetItem(Dotted(t))
    \/ \E t \in LookupSeqs : GetItem(Dotted(DalPrefixed(t)))

SpecLookup == Init /\ [][NextLookup]_vars

\* C26 as stated: a leading dal is ignored: for every dot-delimited path p
\* the lookup accepts, the lookup of 'dal.' + p returns the node the lookup
\* of p returns, whatever the registry holds, a service named dal included.
C26_DalPrefixIgnored ==
    [][ \A t \in LookupSeqs :
            ( /\ GetItemResult(services, Dotted(t)).err = NoError
              /\ outcome'.op = "getitem"
              /\ GetItem(Dotted(DalPrefixed(t))) )
            => outcome' = Outcome("getitem", GetItemResult(services, Dotted(t)))
      ]_vars

-----------------------------------------------------------------------------
(* The late-binding specification: builders made before and after the      *)
(* services they name are registered and replaced, and invoked afterwards. *)
(* The builder in slot 1 is made at any time; the one in slot 2 is made    *)
(* while the registry is still empty.                                      *)

\* the slot of the builder made before anything is registered
EarlySlot == 2

\* the name the builder in the slot starts with
LateName(s) == IF s = EarlySlot THEN "other" ELSE "users"

\* dal.<name>, kept in the slot
StartLate(s) ==
    /\ s = EarlySlot => services = EmptyServices
    /\ StartPath(s, LateName(s))

\* builder.user_test_method, kept in the builder's slot
GrowLate(s) ==
    /\ s = EarlySlot => services = EmptyServices
    /\ Len(builders[s].path) < MaxPath
    /\ Extend(s, s, "user_test_method")

NextLate ==
    \/ BeginContext
    \/ \E n \in RegNames : RegisterOne(n, "UsersSvc")
    \/ \E n \in RegNames, sv \in RegServices : ReplaceService(n, sv)
    \/ \E s \in CallerSlots : StartLate(s)
    \/ \E s \in CallerSlots : GrowLate(s)
    \/ \E s \in CallerSlots : Invoke(s, <<>>, <<>>)
    \/ MiddlewareCall
    \/ TerminalHandler
    \/ Return
    \/ Finish

SpecLate == Init /\ [][NextLate]_vars

\* the step registers or replaces a service
ChangesRegistry ==
    \/ \E n \in RegNames : RegisterOne(n, "UsersSvc")
    \/ \E n \in RegNames, sv \in RegServices : ReplaceService(n, sv)

\* C27: a builder holds names, not services, and a call resolves them in
\* the registry as it is when the builder is invoked: a builder made for
\* n.m before replace_service(n, s2), or before n was registered at all,
\* and invoked afterwards calls the method m of the service that is stored
\* under n at the invocation.
C27_LateBinding ==
    /\ [][  /\ (ChangesRegistry => builders' = builders)
            /\ \A s \in CallerSlots :
                  (StartPath(s, LateName(s)) /\ ctxDepth > 0) =>
                      builders'[s] = Requester(FacadeCall, <<PathSegment(LateName(s))>>)
            /\ \A s \in CallerSlots :
                  Invoke(s, <<>>, <<>>) =>
                      /\ req'.path = builders[s].path
                      /\ services' = services
            /\ (CallStep => services' = services)
          ]_vars
    /\ []( ( /\ pc = "done"
              /\ outcome.op = "call"
              /\ req.ctx # 0
              /\ Len(asked.path) = 2
              /\ asked.path[2] = "user_test_method" )
            => IF asked.path[1] \in DOMAIN services
               THEN /\ invoked = << [target |-> MethodNode(services[asked.path[1]],
                                                           "user_test_method"),
                                     args |-> <<>>, kwargs |-> <<>>] >>
                    /\ outcome = Outcome("call",
                          Returned(ResultOf(MethodNode(services[asked.path[1]],
                                                       "user_test_method"))))
               ELSE /\ invoked = <<>>
                    /\ outcome.err.type = "DalMethodError" )

C27_Witness ==
    /\ pc = "done"
    /\ asked.path = <<"other", "user_test_method">>
    /\ builders[EarlySlot].path = asked.path
    /\ "other" \in DOMAIN services
    /\ services["other"] = "AltSvc"
    /\ invoked = << [target |-> MethodNode("AltSvc", "user_test_method"),
                     args |-> <<>>, kwargs |-> <<>>] >>
    /\ outcome.val = "alt-service"

-----------------------------------------------------------------------------
(* Claims about the caller's list of interceptors *)

\* how many times the call entered the default resolver
ResolverEntries ==
    Cardinality({ i \in 1..Len(events) :
                    events[i].ev = "enter" /\ events[i].who = DefaultResolver })

\* C28 as stated: constructing a DataAccessLayer leaves the list of
\* interceptors the caller supplied as it was, so every facade built from
\* that list with the default resolver has the chain of the caller's
\* interceptors followed by the resolver once, and no call enters the
\* resolver more than once.
C28_ListUnchanged ==
    /\ [][ \A d \in DefaultChoices : Construct(d) => userList' = userList ]_vars
    /\ []( built.defaults = <<DefaultResolver>> =>
              /\ Count(Links(handler), DefaultResolver) = 1
              /\ ResolverEntries <= 1 )

====
